---- MODULE Spec2Model ----
(***************************************************************************)
(* Order lifecycle of the POS backend: order-number allocation, order      *)
(* creation, status updates, payment, refund, archival and renumbering.    *)
(*                                                                         *)
(* Modelling conventions                                                   *)
(*  - Money is kept in cents (integers).  Timestamps are clock ticks;      *)
(*    NoTime stands for a NULL timestamp column.                           *)
(*  - The application runs one uvicorn worker (src/app.py:598-605): every  *)
(*    "async def" handler runs on one event loop, so the code between two  *)
(*    awaits that really suspend is one atomic step.  The only awaits that *)
(*    suspend are the websocket sends of a broadcast.                      *)
(*  - Collaborators (storage engine, payment gateway, firewall, websocket  *)
(*    transport) are taken at their interface: a call binds to the         *)
(*    function the import names and its outcome is drawn from the outcomes *)
(*    that function can return.  OrderStatus.CANCELLED, which the routes   *)
(*    write, is read as the enum's member VOID ("voided/cancelled",        *)
(*    src/models/order.py:13).                                             *)
(***************************************************************************)
EXTENDS Integers, Sequences, FiniteSets, TLC

\* ------------------------------------------------------------- bounds
MaxOrders == 1
MaxNumberedOrders == 2
MaxTime == 4
TicksPerDay == 2
MaxRequests == 2
MaxAllocOrders == 2
MaxPriceUnits == 1
MaxAmountUnits == 2
MaxOrderDiscounts == 2
\* Calls of broadcast_order_update in one run, and connections accepted.
MaxBroadcasts == 2
MaxConnects == 3

\* ------------------------------------------------- program constants
MaxOrderNumber == 99
FeePercent == 5
MinFee == 30
NoTime == 0
NoPaymentId == 0

PriceUnit == 500

\* The most that is refunded on one order, in price units.
MaxRefundedUnits == 3

\* The most modifiers one order line selects from a list.
MaxSelections == 2

Statuses == {"prep", "ready", "done", "void", "refunded", "partially_refunded"}
ActiveStatuses == {"prep", "ready"}
CompletedStatuses == {"done", "void", "refunded", "partially_refunded"}
PaymentMethods == {"cash", "card"}

OrderIds == 1..MaxOrders
NumberedOrderIds == 1..MaxNumberedOrders
Requests == 1..MaxRequests
Subtotals == {PriceUnit * k : k \in 2..(1 + MaxPriceUnits)}
Taxes == {0}
Amounts == {PriceUnit * k : k \in 1..MaxAmountUnits}

VARIABLES
    orders,           \* live rows of table orders: id -> row
    history,          \* rows of table order_history, in insertion order
    now,              \* the clock
    pc,               \* request slot -> position of the create_order coroutine
    req_order,        \* request slot -> id of the order that coroutine created
    internet_enabled, \* NetworkManager.internet_enabled
    last_order_reset, \* SystemSettings.last_order_reset
    cleanup_pc,       \* position of the scheduler thread in run_daily_cleanup
    last,             \* the most recent handler call and its response
    alloc_result,     \* result of a direct allocator call (SpecAlloc)
    hub,              \* the ConnectionManager, its broadcasts under way, and
                      \* what each client's connection has carried
    background        \* BackgroundTasks handed to the framework and not yet run

vars == <<orders, history, now, pc, req_order, internet_enabled,
          last_order_reset, cleanup_pc, last, alloc_result, hub, background>>

\* ------------------------------------------------------------ helpers
Max(S) == CHOOSE x \in S : \A y \in S : y <= x

today_start(t) == (t \div TicksPerDay) * TicksPerDay

\* An Order row with the column defaults of the model class.  refunded is
\* not a column: it is the sum of the refunds the gateway has accepted for
\* the order's payment, which the gateway holds.
OrderRow(num, created, sub, tx, tot) ==
    [order_number |-> num, status |-> "prep", created_at |-> created,
     subtotal |-> sub, tax |-> tx, discounts |-> <<>>, card_fee |-> 0, total |-> tot,
     payment_method |-> "none", square_payment_id |-> NoPaymentId,
     ready_at |-> NoTime, done_at |-> NoTime, refunded_at |-> NoTime,
     refunded |-> 0]

\* Placeholder for "no such row" in the call record.
NoOrder == [OrderRow(0, NoTime, 0, 0, 0) EXCEPT !.status = "missing"]

\* get_next_order_number without the wrap to 1 (mutant).
get_next_order_number_nowrap(ords, t) ==
    LET todays == {i \in DOMAIN ords : ords[i].created_at >= today_start(t)}
    IN  IF todays = {} THEN 1
        ELSE Max({ords[i].order_number : i \in todays}) + 1

\* get_next_order_number without the filter on created_at: the highest
\* number of the whole table counts.
get_next_order_number_any_day(ords, t) ==
    IF DOMAIN ords = {} THEN 1
    ELSE LET next_number == Max({ords[i].order_number : i \in DOMAIN ords}) + 1
         IN  IF next_number > MaxOrderNumber THEN 1 ELSE next_number

\* The highest order_number among the rows created since midnight, plus one,
\* wrapping to 1 above 99; 1 when there is no such row.
get_next_order_number(ords, t) ==
    LET todays == {i \in DOMAIN ords : ords[i].created_at >= today_start(t)}
    IN  IF todays = {} THEN 1
        ELSE LET next_number == Max({ords[i].order_number : i \in todays}) + 1
             IN  IF next_number > MaxOrderNumber THEN 1 ELSE next_number

\* INTEGER PRIMARY KEY without AUTOINCREMENT: largest rowid in the table + 1.
NewOrderId(ords) == IF DOMAIN ords = {} THEN 1 ELSE Max(DOMAIN ords) + 1

Call(op, oid, before, result, http) ==
    [op |-> op, oid |-> oid, before |-> before, result |-> result, http |-> http,
     amount |-> 0, tendered |-> 0, change |-> 0,
     gateway |-> FALSE, gateway_amount |-> 0, gateway_result |-> "none",
     admin |-> TRUE, discount_available |-> TRUE,
     fee_available |-> FALSE, repeat |-> FALSE,
     broadcast |-> "none", receipt |-> FALSE, invalid |-> FALSE,
     task |-> FALSE]

\* What a handler handed on after its commit: the payload it gave to
\* broadcast_order_update ("status": the order's id and a status word;
\* "projection": order.to_dict()), and whether its print_receipt background
\* task runs, which it does only when the handler returns its response.
Notify(call, payload, receipt) ==
    [call EXCEPT !.broadcast = payload, !.receipt = receipt]

\* A function handed to BackgroundTasks.add_task with the order it is for.
\* The framework runs the tasks of a request after the response is sent.
Task(fn, oid) == [fn |-> fn, oid |-> oid]

\* The tasks pending after a handler that adds print_receipt when it
\* returns its response.
add_task(pending, call) ==
    IF call.receipt THEN pending \cup {Task("print_receipt", call.oid)}
    ELSE pending

\* ------------------------------------------------------------ the hub
\* ClientType, and the client ids of the model, each of one type.
ClientTypes == {"pos", "customer_display", "kitchen_display"}
PosClients == {"p1", "p2"}
CustomerDisplays == {"c1"}
KitchenDisplays == {"k1"}
ClientIds == PosClients \cup CustomerDisplays \cup KitchenDisplays

client_type(c) ==
    CASE c \in PosClients -> "pos"
      [] c \in CustomerDisplays -> "customer_display"
      [] OTHER -> "kitchen_display"

\* A dict is kept as its entry table: the keys in insertion order, a deleted
\* entry leaving its slot behind.
Deleted == "deleted"

\* ConnectionManager.__init__, with no broadcast under way and nothing sent.
\* connections: type -> dict of clients; active_orders: the dict's keys
\* (active_keys) and each key's set (active_sets); tasks: the calls of
\* broadcast_order_update in issue order; log: per client, the broadcasts
\* its connection has carried, in order; connects: connections accepted.
\* The client_id each client puts in its websocket path: every client its
\* own, or the kitchen display configured with the customer display's.
OwnIds == [c \in ClientIds |-> c]

SharedIds == [c \in ClientIds |-> IF c = "k1" THEN "c1" ELSE c]

HubInit ==
    [ids |-> OwnIds,
     connections |-> [ty \in ClientTypes |-> <<>>],
     active_keys |-> <<>>,
     active_sets |-> [c \in ClientIds |-> {}],
     tasks |-> <<>>,
     log |-> [c \in ClientIds |-> <<>>],
     connects |-> 0]

\* The scheduler thread outside a cleanup run: no rows loaded in its session.
\* scheduler: whether scheduler.start() has been called in this process.
CleanupIdle ==
    [at |-> "idle", rows |-> [i \in {} |-> NoOrder], archived |-> FALSE,
     failed |-> FALSE, scheduler |-> TRUE]

\* ------------------------------------------------------------ initial state
Init ==
    /\ orders = [i \in {} |-> NoOrder]
    /\ history = <<>>
    /\ now = 1
    /\ pc = [r \in Requests |-> "idle"]
    /\ req_order = [r \in Requests |-> 0]
    /\ internet_enabled = FALSE
    /\ last_order_reset = NoTime
    /\ cleanup_pc = CleanupIdle
    /\ last = Call("init", 0, NoOrder, "ok", 0)
    /\ alloc_result = 0
    /\ hub = HubInit
    /\ background = {}

\* ------------------------------------------------------------ the clock
Tick ==
    /\ now < MaxTime
    /\ now' = now + 1
    /\ last' = Call("tick", 0, NoOrder, "ok", 0)
    /\ UNCHANGED <<background, hub, orders, history, pc, req_order, internet_enabled,
                   last_order_reset, cleanup_pc, alloc_result>>

\* ------------------------------------------------------------ create_order
\* Up to the commit the handler has no await: validation, allocation, insert
\* and commit are one step.  The coroutine then suspends in the broadcast.
\* The menu as an order line sees it: the item it names is active, inactive
\* or absent, and the item has one modifier list with its selection limits.
ItemStates == {"active", "inactive", "unknown"}

ModList == [min_selections |-> 1, max_selections |-> 1]

\* One order line of a request body: the item, the quantity and how many
\* modifiers of the item's list are selected.
OrderItemRequests ==
    [item : ItemStates, quantity : 0 .. 1, mods : 0 .. MaxSelections]

\* OrderItemData: quantity is declared gt=0, so the framework refuses the
\* body before the handler runs.
OrderItemData_ok(req) == req.quantity > 0

\* item.dict(): the keys are the field names of OrderItemData.
OrderItemData_dict(req) ==
    [item_id |-> req.item, quantity |-> req.quantity, mods |-> req.mods]

\* validate_order_items for one line: TRUE when it returns, FALSE when it
\* raises ValueError.
validate_order_items(item_data) ==
    /\ item_data.item_id = "active"
    /\ item_data.quantity >= 1
    /\ "modifiers" \in DOMAIN item_data =>
          /\ item_data.modifiers >= ModList.min_selections
          /\ item_data.modifiers <= ModList.max_selections

\* The rules an order line has to meet.
LineValid(req) ==
    /\ req.item = "active"
    /\ req.quantity >= 1
    /\ req.mods >= ModList.min_selections
    /\ req.mods <= ModList.max_selections

CreateOrder(r, cap) ==
    /\ pc[r] = "idle"
    /\ \E req \in OrderItemRequests, sub \in Subtotals, tx \in Taxes :
        IF ~OrderItemData_ok(req)
        THEN /\ last' = [Call("create_order", 0, NoOrder, "rejected", 422)
                            EXCEPT !.invalid = ~LineValid(req)]
             /\ UNCHANGED <<hub, orders, pc, req_order>>
        ELSE IF ~validate_order_items(OrderItemData_dict(req))
        THEN /\ last' = [Call("create_order", 0, NoOrder, "rejected", 400)
                            EXCEPT !.invalid = ~LineValid(req)]
             /\ UNCHANGED <<hub, orders, pc, req_order>>
        ELSE /\ NewOrderId(orders) <= cap
             /\ LET id == NewOrderId(orders)
                    order_number == get_next_order_number(orders, now)
                IN  /\ orders' = (id :> OrderRow(order_number, now, sub, tx, sub + tx)) @@ orders
                    /\ req_order' = [req_order EXCEPT ![r] = id]
                    /\ last' = [Call("create_order", id, NoOrder, "ok", 201)
                                   EXCEPT !.invalid = ~LineValid(req)]
             /\ pc' = [pc EXCEPT ![r] = "broadcast"]
    /\ UNCHANGED <<background, hub, history, now, internet_enabled, last_order_reset,
                   cleanup_pc, alloc_result>>

\* The broadcast returns and the handler sends its response.
CreateOrderFinish(r) ==
    /\ pc[r] = "broadcast"
    /\ pc' = [pc EXCEPT ![r] = "idle"]
    /\ req_order' = [req_order EXCEPT ![r] = 0]
    /\ last' = Call("create_order_done", req_order[r], NoOrder, "ok", 201)
    /\ background' = background \cup
            {Task("send_to_physical_printer", req_order[r]),
             Task("send_to_kds", req_order[r])}
    /\ UNCHANGED <<hub, orders, history, now, internet_enabled, last_order_reset,
                   cleanup_pc, alloc_result>>

\* ------------------------------------------------------------ pricing
\* round(n / d) to the nearest integer, halves up.
RoundDiv(n, d) == (2 * n + d) \div (2 * d)

\* Base amounts (in cents, up to 30.00) whose product with the percentage
\* 0.05 is half a cent and for which round(base * 0.05, 2), computed on
\* binary floats, gives the lower cent.
HalfCentRoundsDown ==
    {610, 710, 730, 870, 970, 1170, 1210, 1250, 1470, 1670, 1690, 1890, 1970,
     1990, 2070, 2090, 2150, 2170, 2190, 2230, 2250, 2590, 2670, 2690}

\* The percentage fee rounded half up.
percentage_fee_half_up(base_amount) == RoundDiv(base_amount * FeePercent, 100)

\* round(base_amount * settings.percentage_amount, 2).
percentage_fee(base_amount) ==
    IF base_amount \in HalfCentRoundsDown
    THEN (base_amount * FeePercent) \div 100
    ELSE RoundDiv(base_amount * FeePercent, 100)

\* Order.get_total_discount: the sum of amount_applied over a collection of
\* OrderDiscount records.
RECURSIVE SumApplied(_)
SumApplied(ds) ==
    IF ds = <<>> THEN 0 ELSE Head(ds).amount_applied + SumApplied(Tail(ds))

get_total_discount(o) == SumApplied(o.discounts)

\* Order.calculate_card_fee: 0 unless the order is paid by card and the
\* card-fee settings exist and are available; otherwise the larger of
\* base * percentage and the minimum fee, rounded to cents.
calculate_card_fee(o, fee_available) ==
    IF o.payment_method = "card" /\ fee_available
    THEN LET base_amount == o.subtotal - get_total_discount(o) + o.tax
             pct == percentage_fee(base_amount)
         IN  [o EXCEPT !.card_fee = IF pct > MinFee THEN pct ELSE MinFee]
    ELSE [o EXCEPT !.card_fee = 0]

\* calculate_total adding the fee to the total already stored.
calculate_total_accumulating(o, fee_available) ==
    LET f == calculate_card_fee(o, fee_available)
    IN  [f EXCEPT !.total = o.total + f.card_fee]

\* Order.calculate_total: recomputes the card fee, then the total.
calculate_total(o, fee_available) ==
    LET base_total == o.subtotal - get_total_discount(o) + o.tax
        f == calculate_card_fee(o, fee_available)
    IN  [f EXCEPT !.total = base_total + f.card_fee]

\* Dollar amounts (kept here in hundredths) for which the binary float
\* product amount * 100 falls just below the integer, so int() loses a cent.
TruncatedAmounts ==
    {115, 205, 230, 255, 410, 435, 460, 485, 510, 820, 845, 870, 895, 920, 945,
     970, 995, 1020, 1615, 1640, 1665, 1690, 1715, 1740, 1765, 1790, 1815, 1840,
     1865, 1890, 1915, 1940, 1965, 1990, 2015, 2040}

\* int(amount * 100) on a float dollar amount.
format_money_amount(amount) ==
    IF amount \in TruncatedAmounts THEN amount - 1 ELSE amount

\* What the gateway is asked to charge, in minor units: the route converts
\* the request's amount to cents and process_card_payment converts the
\* number it is handed once more.
GatewayAmount(request_amount) ==
    format_money_amount(100 * format_money_amount(request_amount))

\* validate_payment for a cash payment: "ok" with the change, or rejected.
validate_payment(total, cash_tendered) ==
    IF cash_tendered < total THEN [ok |-> FALSE, change |-> 0]
    ELSE [ok |-> TRUE, change |-> cash_tendered - total]

\* ------------------------------------------------------------ the hub
\* broadcast_order_update returns, or raises out of its fan-out loops.
BroadcastOutcomes == {"ok", "raises"}

\* ------------------------------------------------------------ network gate
\* NetworkManager.enable_internet: TRUE only when it was disabled and the
\* firewall change succeeded.
enable_internet(enabled, firewall_ok) == ~enabled /\ firewall_ok

\* The flag after NetworkManager.disable_internet.
disable_internet(enabled, firewall_ok) ==
    IF enabled /\ firewall_ok THEN FALSE ELSE enabled

\* ------------------------------------------------------------ update_order_status
\* The handler's table of legal transitions.
valid_transitions(from) ==
    CASE from = "prep" -> {"ready", "void"}
      [] from = "ready" -> {"done"}
      [] OTHER -> {}

UpdateOrderStatus(oid) ==
    /\ \E status \in Statuses \cup {"bogus", "none"}, bcast \in BroadcastOutcomes :
        IF oid \notin DOMAIN orders
        THEN /\ last' = Call("update_order_status", oid, NoOrder, "rejected", 404)
             /\ UNCHANGED orders
        ELSE IF status = "none"
        THEN /\ last' = Call("update_order_status", oid, orders[oid], "ok", 200)
             /\ UNCHANGED orders
        ELSE IF status \notin Statuses \/ status \notin valid_transitions(orders[oid].status)
        THEN /\ last' = Call("update_order_status", oid, orders[oid], "rejected", 400)
             /\ UNCHANGED orders
        ELSE /\ orders' = [orders EXCEPT ![oid] =
                    [@ EXCEPT !.status = status,
                              !.done_at = IF status = "done" THEN now ELSE @]]
             /\ last' = Notify(Call("update_order_status", oid, orders[oid],
                                    IF bcast = "ok" THEN "ok" ELSE "error",
                                    IF bcast = "ok" THEN 200 ELSE 500),
                               "status", FALSE)
    /\ UNCHANGED <<background, hub, history, now, pc, req_order, internet_enabled,
                   last_order_reset, cleanup_pc, alloc_result>>

\* ------------------------------------------------------------ cancel_order
CancelOrder(oid) ==
    /\ \E bcast \in BroadcastOutcomes :
        IF oid \notin DOMAIN orders
        THEN /\ last' = Call("cancel_order", oid, NoOrder, "rejected", 404)
             /\ UNCHANGED orders
        ELSE IF orders[oid].status # "prep"
        THEN /\ last' = Call("cancel_order", oid, orders[oid], "rejected", 400)
             /\ UNCHANGED orders
        ELSE /\ orders' = [orders EXCEPT ![oid] = [orders[oid] EXCEPT !.status = "void"]]
             /\ last' = Notify(Call("cancel_order", oid, orders[oid],
                                    IF bcast = "ok" THEN "ok" ELSE "error",
                                    IF bcast = "ok" THEN 200 ELSE 500),
                               "status", FALSE)
    /\ UNCHANGED <<background, hub, history, now, pc, req_order, internet_enabled,
                   last_order_reset, cleanup_pc, alloc_result>>

\* ------------------------------------------------------------ close_order
CloseOrder(oid) ==
    /\ \E method \in PaymentMethods, cash_tendered \in Amounts,
          fee_available \in BOOLEAN, bcast \in BroadcastOutcomes :
        LET req(c) == [c EXCEPT !.tendered = IF method = "cash" THEN cash_tendered ELSE 0]
        IN
        IF oid \notin DOMAIN orders
        THEN /\ last' = req(Call("close_order", oid, NoOrder, "rejected", 404))
             /\ UNCHANGED orders
        ELSE IF orders[oid].status # "ready"
        THEN /\ last' = req(Call("close_order", oid, orders[oid], "rejected", 400))
             /\ UNCHANGED orders
        ELSE LET priced == calculate_total(
                               [orders[oid] EXCEPT !.payment_method = method],
                               fee_available)
                 paid == validate_payment(priced.total, cash_tendered)
             IN  IF method = "cash" /\ ~paid.ok
                 THEN /\ last' = req(Call("close_order", oid, orders[oid], "rejected", 400))
                      /\ UNCHANGED orders
                 ELSE /\ orders' = [orders EXCEPT ![oid] =
                             [priced EXCEPT !.status = "done", !.done_at = now]]
                      /\ last' = [req(Call("close_order", oid, orders[oid],
                                           IF bcast = "ok" THEN "ok" ELSE "error",
                                           IF bcast = "ok" THEN 200 ELSE 500))
                                  EXCEPT !.change = IF method = "cash" THEN paid.change ELSE 0,
                                         !.broadcast = "projection",
                                         !.receipt = (bcast = "ok")]
    /\ background' = add_task(background, last')
    /\ UNCHANGED <<hub, history, now, pc, req_order, internet_enabled,
                   last_order_reset, cleanup_pc, alloc_result>>

\* ------------------------------------------------------------ discounts
\* The discount catalogue: a percentage discount and a flat one (flat amounts
\* are stored negative, in cents).
DiscountIds == {1, 2}

Discount(id) ==
    IF id = 1 THEN [id |-> 1, amount |-> 10, is_percentage |-> TRUE]
    ELSE [id |-> 2, amount |-> 0 - 200, is_percentage |-> FALSE]

Abs(n) == IF n < 0 THEN 0 - n ELSE n

\* Discount.calculate_discount_amount.
calculate_discount_amount(d, available, group_available, subtotal) ==
    IF ~available \/ ~group_available THEN 0
    ELSE IF d.is_percentage THEN RoundDiv(subtotal * d.amount, 100)
    ELSE Abs(d.amount)

\* Order.apply_discount without its availability guard.
apply_discount_unguarded(o, d, available, group_available, fee_available) ==
    LET rec == [discount_id |-> d.id,
                amount_applied |-> calculate_discount_amount(
                                       d, available, group_available, o.subtotal)]
    IN  [ok |-> TRUE,
         order |-> calculate_total([o EXCEPT !.discounts = Append(@, rec)],
                                   fee_available)]

\* Order.apply_discount writing from a view of the order read before the
\* discounts now stored were applied: the collection it saves holds the new
\* record alone.
apply_discount_stale_view(o, d, available, group_available, fee_available) ==
    LET rec == [discount_id |-> d.id,
                amount_applied |-> calculate_discount_amount(
                                       d, available, group_available, o.subtotal)]
    IN  IF ~available \/ ~group_available THEN [ok |-> FALSE, order |-> o]
        ELSE [ok |-> TRUE,
              order |-> calculate_total([o EXCEPT !.discounts = <<rec>>],
                                        fee_available)]

\* Order.apply_discount: refuses an unavailable discount or group; otherwise
\* appends an OrderDiscount record and recomputes the total.
apply_discount(o, d, available, group_available, fee_available) ==
    IF ~available \/ ~group_available THEN [ok |-> FALSE, order |-> o]
    ELSE apply_discount_unguarded(o, d, available, group_available, fee_available)

\* POST /orders/{id}/discounts/{discount_id}.
ApplyDiscount(oid) ==
    /\ \E discount_id \in DiscountIds \cup {0}, available \in BOOLEAN,
          group_available \in BOOLEAN, fee_available \in BOOLEAN :
        LET call(o, result, http) ==
                [Call("apply_discount", oid, o, result, http)
                 EXCEPT !.discount_available = available /\ group_available]
        IN
        IF oid \notin DOMAIN orders
        THEN /\ last' = call(NoOrder, "rejected", 404)
             /\ UNCHANGED orders
        ELSE IF discount_id \notin DiscountIds
        THEN /\ last' = call(orders[oid], "rejected", 404)
             /\ UNCHANGED orders
        ELSE LET applied == apply_discount(orders[oid], Discount(discount_id),
                                           available, group_available, fee_available)
             IN  IF ~applied.ok
                 THEN /\ last' = call(orders[oid], "rejected", 400)
                      /\ UNCHANGED orders
                 ELSE /\ Len(orders[oid].discounts) < MaxOrderDiscounts
                      /\ orders' = [orders EXCEPT ![oid] = applied.order]
                      /\ last' = call(orders[oid], "ok", 200)
    /\ UNCHANGED <<background, hub, history, now, pc, req_order, internet_enabled,
                   last_order_reset, cleanup_pc, alloc_result>>

\* Position of the first record of a discount in a collection, 0 if none.
FirstIndex(ds, discount_id) ==
    IF \E i \in 1..Len(ds) : ds[i].discount_id = discount_id
    THEN CHOOSE i \in 1..Len(ds) :
            /\ ds[i].discount_id = discount_id
            /\ \A j \in 1..(i - 1) : ds[j].discount_id # discount_id
    ELSE 0

RemoveAt(ds, i) == SubSeq(ds, 1, i - 1) \o SubSeq(ds, i + 1, Len(ds))

\* DELETE /orders/{id}/discounts/{discount_id}.  The session does not
\* autoflush, so the collection calculate_total loads still holds the record
\* marked for deletion; the commit then deletes it.
RemoveDiscount(oid) ==
    /\ \E discount_id \in DiscountIds, fee_available \in BOOLEAN :
        IF oid \notin DOMAIN orders
        THEN /\ last' = Call("remove_discount", oid, NoOrder, "rejected", 404)
             /\ UNCHANGED orders
        ELSE LET i == FirstIndex(orders[oid].discounts, discount_id)
                 priced == calculate_total(orders[oid], fee_available)
             IN  IF i = 0
                 THEN /\ last' = Call("remove_discount", oid, orders[oid], "rejected", 404)
                      /\ UNCHANGED orders
                 ELSE /\ orders' = [orders EXCEPT ![oid] =
                             [priced EXCEPT !.discounts = RemoveAt(@, i)]]
                      /\ last' = Call("remove_discount", oid, orders[oid], "ok", 200)
    /\ UNCHANGED <<background, hub, history, now, pc, req_order, internet_enabled,
                   last_order_reset, cleanup_pc, alloc_result>>

\* ------------------------------------------------------------ item lines
\* add_item and remove_item compare the status with OrderStatus.OPEN, which
\* the enum does not define: for an existing order the guard itself raises
\* and the request ends in a 500 with nothing written.
ItemMutation(op, oid) ==
    /\ IF oid \notin DOMAIN orders
       THEN last' = Call(op, oid, NoOrder, "rejected", 404)
       ELSE last' = Call(op, oid, orders[oid], "error", 500)
    /\ UNCHANGED <<background, hub, orders, history, now, pc, req_order, internet_enabled,
                   last_order_reset, cleanup_pc, alloc_result>>

AddItem(oid) == ItemMutation("add_item", oid)

RemoveItem(oid) == ItemMutation("remove_item", oid)

\* ------------------------------------------------------------ process_payment
\* The response after the commit: the broadcast is awaited inside the try
\* block, so an exception out of it is reported as a 500.
AfterCommit(call, bcast) ==
    IF bcast = "ok" THEN [call EXCEPT !.result = "ok", !.http = 200]
    ELSE [call EXCEPT !.result = "error", !.http = 500]

\* The guard of process_payment: only an order that is already DONE is refused.
PaymentRefused(o) == o.status = "done"

\* The amount a cash payment is measured against: the request's amount.
CashAmountDue(o, request_amount) == request_amount

ProcessPaymentCash(oid) ==
    /\ \E amount \in Amounts, has_tendered \in BOOLEAN, cash_tendered \in Amounts,
          bcast \in BroadcastOutcomes :
        LET req(c) == [c EXCEPT !.amount = amount,
                                !.tendered = IF has_tendered THEN cash_tendered ELSE 0]
        IN
        IF oid \notin DOMAIN orders
        THEN /\ last' = req(Call("pay_cash", oid, NoOrder, "rejected", 404))
             /\ UNCHANGED orders
        ELSE IF PaymentRefused(orders[oid])
        THEN /\ last' = req(Call("pay_cash", oid, orders[oid], "rejected", 400))
             /\ UNCHANGED orders
        ELSE IF ~has_tendered \/ cash_tendered < CashAmountDue(orders[oid], amount)
        THEN /\ last' = req(Call("pay_cash", oid, orders[oid], "error", 500))
             /\ UNCHANGED orders
        ELSE /\ orders' = [orders EXCEPT ![oid] =
                    [@ EXCEPT !.payment_method = "cash", !.status = "done",
                              !.done_at = now]]
             /\ last' = [AfterCommit(req(Call("pay_cash", oid, orders[oid], "ok", 200)), bcast)
                         EXCEPT !.change = cash_tendered - CashAmountDue(orders[oid], amount),
                                !.broadcast = "status",
                                !.receipt = (bcast = "ok")]
    /\ background' = add_task(background, last')
    /\ UNCHANGED <<hub, history, now, pc, req_order, internet_enabled,
                   last_order_reset, cleanup_pc, alloc_result>>

GatewayOutcomes == {"success", "failure"}
PaymentIds == {1}

ProcessPaymentCard(oid) ==
    /\ \E amount \in Amounts, fw_on \in BOOLEAN, fw_off \in BOOLEAN,
          gw \in GatewayOutcomes, payment_id \in PaymentIds,
          bcast \in BroadcastOutcomes :
        LET req(c) == [c EXCEPT !.amount = amount]
            charged(c) == [req(c) EXCEPT !.gateway = TRUE,
                                         !.gateway_amount = GatewayAmount(amount),
                                         !.gateway_result = gw]
        IN
        IF oid \notin DOMAIN orders
        THEN /\ last' = req(Call("pay_card", oid, NoOrder, "rejected", 404))
             /\ UNCHANGED <<hub, orders, internet_enabled>>
        ELSE IF PaymentRefused(orders[oid])
        THEN /\ last' = req(Call("pay_card", oid, orders[oid], "rejected", 400))
             /\ UNCHANGED <<hub, orders, internet_enabled>>
        ELSE IF ~enable_internet(internet_enabled, fw_on)
        THEN /\ last' = req(Call("pay_card", oid, orders[oid], "error", 500))
             /\ UNCHANGED <<hub, orders, internet_enabled>>
        ELSE /\ internet_enabled' = disable_internet(TRUE, fw_off)
             /\ IF gw = "success"
                THEN /\ orders' = [orders EXCEPT ![oid] =
                            [@ EXCEPT !.payment_method = "card", !.status = "done",
                                      !.done_at = now,
                                      !.square_payment_id = payment_id]]
                     /\ last' = Notify(AfterCommit(charged(Call("pay_card", oid, orders[oid],
                                                                "ok", 200)), bcast),
                                       "status", bcast = "ok")
                ELSE /\ last' = charged(Call("pay_card", oid, orders[oid], "error", 500))
                     /\ UNCHANGED orders
    /\ background' = add_task(background, last')
    /\ UNCHANGED <<hub, history, now, pc, req_order,
                   last_order_reset, cleanup_pc, alloc_result>>

\* ------------------------------------------------------------ process_refund
\* The status guard of process_refund, accepting every status.
RefundableAny(o) == TRUE

\* The status after a refund, with a strict comparison.
refund_status_strict(amount, total) ==
    IF amount > total THEN "refunded" ELSE "partially_refunded"

\* The status process_refund gives the order after a successful refund.
refund_status(amount, total) ==
    IF amount >= total THEN "refunded" ELSE "partially_refunded"

\* The status guard of process_refund.
Refundable(o) == o.status \in {"done", "partially_refunded"}

ProcessRefund(oid) ==
    /\ \E is_admin \in BOOLEAN, amount \in Amounts, fw_on \in BOOLEAN,
          fw_off \in BOOLEAN, gw \in GatewayOutcomes, bcast \in BroadcastOutcomes :
        LET req(c) == [c EXCEPT !.amount = amount, !.admin = is_admin]
            row == IF oid \in DOMAIN orders THEN orders[oid] ELSE NoOrder
        IN
        IF ~is_admin
        THEN /\ last' = req(Call("refund", oid, row, "rejected", 403))
             /\ UNCHANGED <<hub, orders, internet_enabled>>
        ELSE IF oid \notin DOMAIN orders
        THEN /\ last' = req(Call("refund", oid, NoOrder, "rejected", 404))
             /\ UNCHANGED <<hub, orders, internet_enabled>>
        ELSE IF ~Refundable(orders[oid])
        THEN /\ last' = req(Call("refund", oid, orders[oid], "rejected", 400))
             /\ UNCHANGED <<hub, orders, internet_enabled>>
        ELSE IF ~enable_internet(internet_enabled, fw_on)
        THEN /\ last' = req(Call("refund", oid, orders[oid], "error", 500))
             /\ UNCHANGED <<hub, orders, internet_enabled>>
        ELSE /\ internet_enabled' = disable_internet(TRUE, fw_off)
             /\ IF gw = "success"
                THEN /\ orders[oid].refunded + amount <= MaxRefundedUnits * PriceUnit
                     /\ orders' = [orders EXCEPT ![oid] =
                            [@ EXCEPT !.status = refund_status(amount, orders[oid].total),
                                      !.refunded_at = now,
                                      !.refunded = @ + amount]]
                     /\ last' = [AfterCommit(req(Call("refund", oid, orders[oid], "ok", 200)), bcast)
                                 EXCEPT !.gateway = TRUE, !.gateway_result = gw,
                                        !.broadcast = "status"]
                ELSE /\ last' = [req(Call("refund", oid, orders[oid], "error", 500))
                                 EXCEPT !.gateway = TRUE, !.gateway_result = gw]
                     /\ UNCHANGED orders
    /\ UNCHANGED <<background, hub, history, now, pc, req_order,
                   last_order_reset, cleanup_pc, alloc_result>>

\* ------------------------------------------------------------ archival, renumbering
\* The rows archive_completed_orders selects at time t.
ToArchive(ords, t) ==
    {i \in DOMAIN ords : /\ ords[i].status \in CompletedStatuses
                         /\ ords[i].created_at < t - TicksPerDay}

RECURSIVE HistoryRows(_, _, _)
\* OrderHistory.from_order for each selected row, in id order.
HistoryRows(ords, ids, t) ==
    IF ids = {} THEN <<>>
    ELSE LET i == CHOOSE x \in ids : \A y \in ids : x <= y
         IN  <<[order_id |-> i, row |-> ords[i], archived_at |-> t]>>
             \o HistoryRows(ords, ids \ {i}, t)

\* The rows the query of archive_completed_orders loads at time t.
SelectCompleted(ords, t) == [i \in ToArchive(ords, t) |-> ords[i]]

\* The writes of archive_completed_orders for the rows it loaded: one history
\* row per loaded row, and a DELETE by id for each.
archive_rows(ords, hist, rows, t) ==
    [orders |-> [i \in DOMAIN ords \ DOMAIN rows |-> ords[i]],
     history |-> hist \o HistoryRows(rows, DOMAIN rows, t)]

\* archive_completed_orders: the live rows left, and the history after it.
archive_completed_orders(ords, hist, t) ==
    archive_rows(ords, hist, SelectCompleted(ords, t), t)

\* The position of active row i in created_at order (ties in id order).
ActiveRank(ords, i) ==
    1 + Cardinality({j \in DOMAIN ords :
            /\ ords[j].status \in ActiveStatuses
            /\ \/ ords[j].created_at < ords[i].created_at
               \/ (ords[j].created_at = ords[i].created_at /\ j < i)})

\* reset_order_numbers without its renumbering loop.
reset_order_numbers_archive_only(ords, hist, t) ==
    archive_completed_orders(ords, hist, t)

\* reset_order_numbers: archive, then number the active rows 1..N.
reset_order_numbers(ords, hist, t) ==
    LET a == archive_completed_orders(ords, hist, t)
    IN  [orders |-> [i \in DOMAIN a.orders |->
                        IF a.orders[i].status \in ActiveStatuses
                        THEN [a.orders[i] EXCEPT !.order_number = ActiveRank(a.orders, i)]
                        ELSE a.orders[i]],
         history |-> a.history]

\* How a call of reset_order_numbers can end: both commits made; the commit
\* of archive_completed_orders made and the renumbering rolled back; neither.
ResetOutcomes == {"ok", "renumber_fails", "fails"}

reset_outcome(ords, hist, t, outcome) ==
    CASE outcome = "ok" -> reset_order_numbers(ords, hist, t)
      [] outcome = "renumber_fails" -> archive_completed_orders(ords, hist, t)
      [] OTHER -> [orders |-> ords, history |-> hist]

\* POST /admin/reset-order-numbers.  reset_order_numbers returns False when
\* the storage raises; the route then answers 500.
AdminResetOrders ==
    /\ \E outcome \in ResetOutcomes :
        LET r == reset_outcome(orders, history, now, outcome)
        IN  /\ orders' = r.orders
            /\ history' = r.history
            /\ last' = IF outcome = "ok"
                       THEN Call("reset_orders", 0, NoOrder, "ok", 200)
                       ELSE Call("reset_orders", 0, NoOrder, "error", 500)
    /\ UNCHANGED <<background, hub, now, pc, req_order, internet_enabled, last_order_reset,
                   cleanup_pc, alloc_result>>

\* run_daily_cleanup on the scheduler thread, with its own session.
\* daily_order_cleanup: the query of archive_completed_orders.
CleanupSelect ==
    /\ cleanup_pc.at = "idle"
    /\ cleanup_pc' = [cleanup_pc EXCEPT !.at = "archive",
                                        !.rows = SelectCompleted(orders, now)]
    /\ last' = Call("cleanup_select", 0, NoOrder, "ok", 0)
    /\ UNCHANGED <<background, hub, orders, history, now, pc, req_order, internet_enabled,
                   last_order_reset, alloc_result>>

\* daily_order_cleanup: the writes and the commit of archive_completed_orders
\* (no commit when nothing was loaded; a rollback when the storage raises).
CleanupArchive ==
    /\ cleanup_pc.at = "archive"
    /\ \E committed \in BOOLEAN :
        LET a == archive_rows(orders, history, cleanup_pc.rows, now)
            written == committed /\ DOMAIN cleanup_pc.rows # {}
        IN  /\ orders' = IF written THEN a.orders ELSE orders
            /\ history' = IF written THEN a.history ELSE history
            /\ cleanup_pc' = [cleanup_pc EXCEPT !.at = "reset",
                                                !.rows = CleanupIdle.rows,
                                                !.archived = written,
                                                !.failed = ~committed]
            /\ last' = Call("cleanup_archive", 0, NoOrder,
                            IF committed THEN "ok" ELSE "error", 0)
    /\ UNCHANGED <<background, hub, now, pc, req_order, internet_enabled, last_order_reset,
                   alloc_result>>

\* daily_order_cleanup: reset_order_numbers, whose result is not looked at.
CleanupReset ==
    /\ cleanup_pc.at = "reset"
    /\ \E outcome \in ResetOutcomes :
        LET r == reset_outcome(orders, history, now, outcome)
        IN  /\ orders' = r.orders
            /\ history' = r.history
            /\ last' = Call("cleanup_reset", 0, NoOrder,
                            IF outcome = "ok" THEN "ok" ELSE "error", 0)
    /\ cleanup_pc' = [cleanup_pc EXCEPT !.at = "stamp",
                                        !.failed = @ \/ last'.result # "ok"]
    /\ UNCHANGED <<background, hub, now, pc, req_order, internet_enabled, last_order_reset,
                   alloc_result>>

\* run_daily_cleanup: daily_order_cleanup returned True; record the run.
CleanupStamp ==
    /\ cleanup_pc.at = "stamp"
    /\ last_order_reset' = now
    /\ cleanup_pc' = [CleanupIdle EXCEPT
                         !.at = IF cleanup_pc.scheduler THEN "idle" ELSE "checked",
                         !.scheduler = cleanup_pc.scheduler]
    /\ last' = Call("cleanup_stamp", 0, NoOrder, "ok", 0)
    /\ UNCHANGED <<background, hub, orders, history, now, pc, req_order, internet_enabled,
                   alloc_result>>

\* CleanupArchive when the storage accepts its writes.
CleanupArchiveCommitted == CleanupArchive /\ last'.result = "ok"

\* The tick of a day at which the cleanup is due ("3 AM").
ThreeAM == 1

\* check_and_run_cleanup: the latest due time at or before local time t.
last_three_am(t) ==
    LET midnight == t - (t % TicksPerDay)
    IN  IF t % TicksPerDay < ThreeAM
        THEN midnight + ThreeAM - TicksPerDay
        ELSE midnight + ThreeAM

\* How far the host's own time zone is ahead of the configured one, in ticks.
HostOffsets == {-1, 0, 1}

\* check_and_run_cleanup: the stored reset time as it is read back.  The
\* column holds the wall-clock reading of the configured zone without an
\* offset; astimezone takes that reading as host-local time.
last_db_reset(stored, off) == stored - off

\* The process between launch and the startup event.
Booting == [CleanupIdle EXCEPT !.at = "boot", !.scheduler = FALSE]

\* Whether the startup event has finished, so that requests are served.
Serving == cleanup_pc.scheduler

\* startup_event: check_and_run_cleanup up to its decision; when a cleanup
\* is needed, run_daily_cleanup starts within the same call.
StartupCheck ==
    /\ cleanup_pc.at = "boot"
    /\ \E off \in HostOffsets :
        LET needed == \/ last_order_reset = NoTime
                      \/ last_db_reset(last_order_reset, off) < last_three_am(now)
        IN  /\ cleanup_pc' = IF needed
                             THEN [cleanup_pc EXCEPT !.at = "archive",
                                       !.rows = SelectCompleted(orders, now)]
                             ELSE [cleanup_pc EXCEPT !.at = "checked"]
            /\ last' = Call("startup_check", 0, NoOrder,
                            IF needed THEN "run" ELSE "skip", 0)
    /\ UNCHANGED <<background, hub, orders, history, now, pc, req_order, internet_enabled,
                   last_order_reset, alloc_result>>

\* startup_event: scheduler.start(), after check_and_run_cleanup returned.
SchedulerStart ==
    /\ cleanup_pc.at = "checked"
    /\ cleanup_pc' = CleanupIdle
    /\ last' = Call("scheduler_start", 0, NoOrder, "ok", 0)
    /\ UNCHANGED <<background, hub, orders, history, now, pc, req_order, internet_enabled,
                   last_order_reset, alloc_result>>

\* The server process is stopped and launched again; the database stays.
Restart ==
    /\ cleanup_pc.at = "idle"
    /\ \A r \in DOMAIN pc : pc[r] = "idle"
    /\ cleanup_pc' = Booting
    /\ last' = Call("restart", 0, NoOrder, "ok", 0)
    /\ UNCHANGED <<background, hub, orders, history, now, pc, req_order, internet_enabled,
                   last_order_reset, alloc_result>>

\* ------------------------------------------------------------ dicts
DictKeys(slots) == {slots[i] : i \in 1..Len(slots)} \ {Deleted}

DictLen(slots) == Cardinality(DictKeys(slots))

\* d[k] = v: a present key keeps its slot, a new key takes the next slot.
DictSet(slots, k) == IF k \in DictKeys(slots) THEN slots ELSE Append(slots, k)

\* del d[k]
DictDel(slots, k) ==
    [i \in 1..Len(slots) |-> IF slots[i] = k THEN Deleted ELSE slots[i]]

\* iter(d.items()): the slot last looked at, the items still expected, and
\* the dict's size when the iteration began.
NewIter(slots) == [pos |-> 0, len |-> DictLen(slots), used |-> DictLen(slots)]

\* The first occupied slot after slot p, or 0.
NextLive(slots, p) ==
    LET live == {i \in (p + 1)..Len(slots) : slots[i] # Deleted}
    IN  IF live = {} THEN 0 ELSE CHOOSE i \in live : \A j \in live : i <= j

\* next() of a dict iterator: RuntimeError when the size differs from the size
\* at the start or when more items turn up than were expected.
IterNext(slots, it) ==
    LET i == NextLive(slots, it.pos)
    IN  IF it.used # DictLen(slots)
        THEN [kind |-> "error", key |-> Deleted, it |-> it]
        ELSE IF i = 0
        THEN [kind |-> "stop", key |-> Deleted, it |-> it]
        ELSE IF it.len = 0
        THEN [kind |-> "error", key |-> Deleted, it |-> it]
        ELSE [kind |-> "item", key |-> slots[i],
              it |-> [it EXCEPT !.pos = i, !.len = it.len - 1]]

\* ------------------------------------------------------------ ConnectionManager
\* The phases of broadcast_order_update in which a send is awaited.
Suspended == {"pos", "customer", "kitchen"}

Connected(h) == UNION {DictKeys(h.connections[ty]) : ty \in ClientTypes}

\* The connected clients of a type that use client_id k (one at most: the
\* type's dict has one entry per id).
WithId(h, ty, k) == {c \in DictKeys(h.connections[ty]) : h.ids[c] = k}

\* disconnect(client_type, client_id).  A client that leaves is no longer a
\* recipient of the broadcasts under way (stable, watching).
disconnect(h, c) ==
    [h EXCEPT !.connections = [ty \in ClientTypes |->
                                  IF ty = client_type(c)
                                  THEN DictDel(h.connections[ty], c)
                                  ELSE h.connections[ty]],
              !.active_keys = DictDel(h.active_keys, h.ids[c]),
              !.active_sets = [d \in ClientIds |->
                                  IF d = h.ids[c] THEN {} ELSE h.active_sets[d]],
              !.tasks = [s \in DOMAIN h.tasks |->
                            [h.tasks[s] EXCEPT !.stable = h.tasks[s].stable \ {c},
                                               !.watching = h.tasks[s].watching \ {c}]]]

RECURSIVE disconnect_all(_, _)
\* broadcast_to_type: the clean-up loop over its list of failed clients.
disconnect_all(h, failed) ==
    IF failed = <<>> THEN h
    ELSE disconnect_all(disconnect(h, Head(failed)), Tail(failed))

\* A broadcast_order_update call as it begins: the POS fan-out is next.
\* stable: the clients connected since the call began; watching: the customer
\* displays watching the order since then; watched: those that watched it at
\* some moment of the call; failed: the clients a send to which raised;
\* disturbed: a client connected, left, watched or unwatched meanwhile.
NewTask(h, oid, status) ==
    [at |-> "pos", it |-> NewIter(h.connections["pos"]), to |-> Deleted,
     sent_ok |-> TRUE, behind |-> FALSE, disconnected |-> <<>>,
     order_id |-> oid, status |-> status, result |-> "pending",
     stable |-> Connected(h),
     watching |-> {c \in DictKeys(h.connections["customer_display"]) :
                      oid \in h.active_sets[h.ids[c]]},
     watched |-> {c \in DictKeys(h.connections["customer_display"]) :
                      oid \in h.active_sets[h.ids[c]]},
     failed |-> {}, disturbed |-> FALSE]

\* The hub with the record of broadcast s replaced by t.
SetTask(h, s, t) ==
    [h EXCEPT !.tasks = [u \in DOMAIN h.tasks |-> IF u = s THEN t ELSE h.tasks[u]]]

\* The call returns or raises.
Finish(h, s, result) ==
    SetTask(h, s, [h.tasks[s] EXCEPT !.at = "done", !.result = result])

\* await connection.send_json(message): the message goes onto the client's
\* connection (or the send is going to raise) and the coroutine waits, behind
\* any other coroutine already waiting on that connection.
send_json(h, s, c, ok) ==
    LET t == [h.tasks[s] EXCEPT
                 !.to = c,
                 !.sent_ok = ok,
                 !.behind = \E u \in DOMAIN h.tasks :
                               /\ u # s
                               /\ h.tasks[u].at \in Suspended
                               /\ h.tasks[u].to = c,
                 !.failed = IF ok THEN h.tasks[s].failed
                            ELSE h.tasks[s].failed \cup {c}]
        carried == [d \in ClientIds |->
                       IF d = c /\ ok THEN Append(h.log[d], s) ELSE h.log[d]]
    IN  [SetTask(h, s, t) EXCEPT !.log = carried]

RECURSIVE broadcast_order_update(_, _, _)
\* broadcast_order_update from where it stands up to its next awaited send
\* (whose outcome is ok) or its end: broadcast_to_type(POS), the loop over
\* active_orders with send_to_client, broadcast_to_type(KITCHEN_DISPLAY).
broadcast_order_update(h, s, ok) ==
    LET t == h.tasks[s]
    IN  IF t.at \in {"pos", "kitchen"}
        THEN LET ty == IF t.at = "pos" THEN "pos" ELSE "kitchen_display"
                 r == IterNext(h.connections[ty], t.it)
                 h2 == disconnect_all(h, t.disconnected)
             IN  CASE r.kind = "error" -> Finish(h, s, "error")
                   [] r.kind = "item" ->
                        send_json(SetTask(h, s, [t EXCEPT !.it = r.it]), s, r.key, ok)
                   [] OTHER ->
                        IF t.at = "pos"
                        THEN broadcast_order_update(
                                 SetTask(h2, s, [h2.tasks[s] EXCEPT
                                                    !.at = "customer",
                                                    !.it = NewIter(h2.active_keys),
                                                    !.disconnected = <<>>]), s, ok)
                        ELSE Finish(h2, s, "ok")
        ELSE LET r == IterNext(h.active_keys, t.it)
                 h1 == SetTask(h, s, [t EXCEPT !.it = r.it])
             IN  CASE r.kind = "error" -> Finish(h, s, "error")
                   [] r.kind = "item" ->
                        IF /\ t.order_id \in h.active_sets[r.key]
                           /\ WithId(h, "customer_display", r.key) # {}
                        THEN send_json(h1, s,
                                       CHOOSE c \in WithId(h, "customer_display", r.key) : TRUE,
                                       ok)
                        ELSE broadcast_order_update(h1, s, ok)
                   [] OTHER ->
                        IF t.status = "open"
                        THEN broadcast_order_update(
                                 SetTask(h, s, [t EXCEPT
                                     !.at = "kitchen",
                                     !.it = NewIter(h.connections["kitchen_display"])]),
                                 s, ok)
                        ELSE Finish(h, s, "ok")

\* PATCH /orders/{order_id} with the hub's fan-out spelled out: the handler up
\* to the first send its broadcast awaits.
HubUpdateOrderStatus(oid) ==
    /\ Len(hub.tasks) < MaxBroadcasts
    /\ \E status \in Statuses \cup {"bogus", "none"}, ok \in BOOLEAN :
        IF oid \notin DOMAIN orders
        THEN /\ last' = Call("update_order_status", oid, NoOrder, "rejected", 404)
             /\ UNCHANGED <<orders, hub>>
        ELSE IF status = "none"
        THEN /\ last' = Call("update_order_status", oid, orders[oid], "ok", 200)
             /\ UNCHANGED <<orders, hub>>
        ELSE IF status \notin Statuses \/ status \notin valid_transitions(orders[oid].status)
        THEN /\ last' = Call("update_order_status", oid, orders[oid], "rejected", 400)
             /\ UNCHANGED <<orders, hub>>
        ELSE /\ orders' = [orders EXCEPT ![oid] =
                    [@ EXCEPT !.status = status,
                              !.done_at = IF status = "done" THEN now ELSE @]]
             /\ hub' = broadcast_order_update(
                           [hub EXCEPT !.tasks = Append(hub.tasks,
                                                        NewTask(hub, oid, status))],
                           Len(hub.tasks) + 1, ok)
             /\ last' = Call("update_order_status", oid, orders[oid], "broadcast", 0)
    /\ UNCHANGED <<background, history, now, pc, req_order, internet_enabled,
                   last_order_reset, cleanup_pc, alloc_result>>

\* An awaited send returns or raises, and the broadcast goes on to its next
\* awaited send or its end.
BroadcastResume(s) ==
    /\ s \in DOMAIN hub.tasks
    /\ hub.tasks[s].at \in Suspended
    /\ ~hub.tasks[s].behind
    /\ \E ok \in BOOLEAN :
        LET t == hub.tasks[s]
            h0 == [hub EXCEPT !.tasks =
                      [u \in DOMAIN hub.tasks |->
                          IF u # s /\ hub.tasks[u].to = t.to
                          THEN [hub.tasks[u] EXCEPT !.behind = FALSE]
                          ELSE hub.tasks[u]]]
            h1 == IF t.sent_ok THEN h0
                  ELSE IF t.at = "customer" THEN disconnect(h0, t.to)
                  ELSE SetTask(h0, s, [h0.tasks[s] EXCEPT
                                          !.disconnected = Append(t.disconnected, t.to)])
        IN  hub' = broadcast_order_update(h1, s, ok)
    /\ last' = Call("broadcast_resume", hub.tasks[s].order_id, NoOrder, "ok", 0)
    /\ UNCHANGED <<background, orders, history, now, pc, req_order, internet_enabled,
                   last_order_reset, cleanup_pc, alloc_result>>

\* A websocket handler changed the registry while broadcasts are under way.
Disturb(h) ==
    [h EXCEPT !.tasks = [s \in DOMAIN h.tasks |->
                            IF h.tasks[s].at \in Suspended
                            THEN [h.tasks[s] EXCEPT !.disturbed = TRUE]
                            ELSE h.tasks[s]]]

\* websocket_endpoint: connect, once the connection is accepted.
ClientConnect(c) ==
    /\ c \notin Connected(hub)
    /\ hub.connects < MaxConnects
    /\ hub' = [Disturb(hub) EXCEPT
                  !.connections = [ty \in ClientTypes |->
                                      IF ty = client_type(c)
                                      THEN DictSet(hub.connections[ty], c)
                                      ELSE hub.connections[ty]],
                  !.active_keys = DictSet(hub.active_keys, hub.ids[c]),
                  !.active_sets = [d \in ClientIds |->
                                      IF d = hub.ids[c] THEN {} ELSE hub.active_sets[d]],
                  !.connects = hub.connects + 1]
    /\ last' = Call("connect", 0, NoOrder, "ok", 0)
    /\ UNCHANGED <<background, orders, history, now, pc, req_order, internet_enabled,
                   last_order_reset, cleanup_pc, alloc_result>>

\* websocket_endpoint: the client went away (WebSocketDisconnect).
ClientDisconnect(c) ==
    /\ c \in Connected(hub)
    /\ hub' = disconnect(Disturb(hub), c)
    /\ last' = Call("disconnect", 0, NoOrder, "ok", 0)
    /\ UNCHANGED <<background, orders, history, now, pc, req_order, internet_enabled,
                   last_order_reset, cleanup_pc, alloc_result>>

\* websocket_endpoint: a watch_order message; add_active_order.
WatchOrder(c, oid) ==
    /\ c \in Connected(hub)
    /\ hub.ids[c] \in DictKeys(hub.active_keys)
    /\ oid \notin hub.active_sets[hub.ids[c]]
    /\ hub' = [Disturb(hub) EXCEPT
                  !.active_sets = [d \in ClientIds |->
                                      IF d = hub.ids[c] THEN hub.active_sets[d] \cup {oid}
                                      ELSE hub.active_sets[d]],
                  !.tasks = [s \in DOMAIN hub.tasks |->
                      IF hub.tasks[s].at \in Suspended /\ hub.tasks[s].order_id = oid
                      THEN [Disturb(hub).tasks[s] EXCEPT
                               !.watched = hub.tasks[s].watched \cup {c}]
                      ELSE Disturb(hub).tasks[s]]]
    /\ last' = Call("watch_order", oid, NoOrder, "ok", 0)
    /\ UNCHANGED <<background, orders, history, now, pc, req_order, internet_enabled,
                   last_order_reset, cleanup_pc, alloc_result>>

\* websocket_endpoint: an unwatch_order message; remove_active_order.
UnwatchOrder(c, oid) ==
    /\ c \in Connected(hub)
    /\ hub.ids[c] \in DictKeys(hub.active_keys)
    /\ oid \in hub.active_sets[hub.ids[c]]
    /\ hub' = [Disturb(hub) EXCEPT
                  !.active_sets = [d \in ClientIds |->
                                      IF d = hub.ids[c] THEN hub.active_sets[d] \ {oid}
                                      ELSE hub.active_sets[d]],
                  !.tasks = [s \in DOMAIN hub.tasks |->
                      IF hub.tasks[s].at \in Suspended /\ hub.tasks[s].order_id = oid
                      THEN [Disturb(hub).tasks[s] EXCEPT
                               !.watching = hub.tasks[s].watching \ {c}]
                      ELSE Disturb(hub).tasks[s]]]
    /\ last' = Call("unwatch_order", oid, NoOrder, "ok", 0)
    /\ UNCHANGED <<background, orders, history, now, pc, req_order, internet_enabled,
                   last_order_reset, cleanup_pc, alloc_result>>

\* ------------------------------------------------------------ background tasks
TaskOutcomes == {"ok", "raises"}

\* The rows after a task whose failure undoes the order's last commit.
task_effect_rollback(ords, t, outcome) ==
    IF outcome = "raises" /\ t.oid \in DOMAIN ords
    THEN [i \in DOMAIN ords \ {t.oid} |-> ords[i]]
    ELSE ords

\* The rows after a task has run: send_to_physical_printer, send_to_kds and
\* print_receipt open a socket to the device and hold no database session;
\* an exception out of them is raised after the response was sent.
task_effect(ords, t, outcome) == ords

\* The framework runs one pending task.
RunBackgroundTask ==
    /\ \E t \in background, outcome \in TaskOutcomes :
        /\ background' = background \ {t}
        /\ orders' = task_effect(orders, t, outcome)
        /\ last' = [Call(t.fn, t.oid,
                         IF t.oid \in DOMAIN orders THEN orders[t.oid] ELSE NoOrder,
                         IF outcome = "ok" THEN "ok" ELSE "error", 0)
                    EXCEPT !.task = TRUE]
    /\ UNCHANGED <<hub, history, now, pc, req_order, internet_enabled,
                   last_order_reset, cleanup_pc, alloc_result>>

\* Requests and the tasks they leave behind.
NextSideEffects ==
    \/ CreateOrder(1, MaxOrders)
    \/ CreateOrderFinish(1)
    \/ \E oid \in OrderIds : UpdateOrderStatus(oid)
    \/ \E oid \in OrderIds : CancelOrder(oid)
    \/ \E oid \in OrderIds : CloseOrder(oid)
    \/ \E oid \in OrderIds : ProcessPaymentCash(oid)
    \/ \E oid \in OrderIds : ProcessPaymentCard(oid)
    \/ RunBackgroundTask

SpecSideEffects == Init /\ [][NextSideEffects]_vars

\* The order lifecycle: one request at a time over MaxOrders rows.
Next ==
    \/ Tick
    \/ CreateOrder(1, MaxOrders)
    \/ CreateOrderFinish(1)
    \/ \E oid \in OrderIds : UpdateOrderStatus(oid)
    \/ \E oid \in OrderIds : CancelOrder(oid)
    \/ \E oid \in OrderIds : CloseOrder(oid)
    \/ \E oid \in OrderIds : ProcessPaymentCash(oid)
    \/ \E oid \in OrderIds : ProcessPaymentCard(oid)

Spec == Init /\ [][Next]_vars

\* Payments and refunds of an order.
NextRefunds ==
    \/ Tick
    \/ CreateOrder(1, MaxOrders)
    \/ CreateOrderFinish(1)
    \/ \E oid \in OrderIds : UpdateOrderStatus(oid)
    \/ \E oid \in OrderIds : ProcessPaymentCash(oid)
    \/ \E oid \in OrderIds : ProcessPaymentCard(oid)
    \/ \E oid \in OrderIds : ProcessRefund(oid)

SpecRefunds == Init /\ [][NextRefunds]_vars

\* Numbering: overlapping creations, status updates and the manual reset
\* over MaxNumberedOrders rows.
NextNumbers ==
    \/ Tick
    \/ \E r \in Requests : CreateOrder(r, MaxNumberedOrders)
    \/ \E r \in Requests : CreateOrderFinish(r)
    \/ \E oid \in NumberedOrderIds : UpdateOrderStatus(oid)
    \/ \E oid \in NumberedOrderIds : CancelOrder(oid)
    \/ AdminResetOrders

SpecNumbers == Init /\ [][NextNumbers]_vars

\* The scheduler thread's daily cleanup beside the order lifecycle.
NextCleanup ==
    \/ Tick
    \/ CreateOrder(1, MaxOrders)
    \/ CreateOrderFinish(1)
    \/ \E oid \in OrderIds : UpdateOrderStatus(oid)
    \/ \E oid \in OrderIds : CancelOrder(oid)
    \/ AdminResetOrders
    \/ CleanupSelect
    \/ CleanupArchive
    \/ CleanupReset
    \/ CleanupStamp

SpecCleanup == Init /\ [][NextCleanup]_vars

\* The same with the clock advancing, the cleanup job firing again and again
\* and going through its steps (the scheduler thread runs it to its end),
\* and the storage accepting the archive's commit whenever it keeps being
\* asked to.
SpecCleanupFair ==
    /\ Init
    /\ [][NextCleanup]_vars
    /\ WF_vars(Tick)
    /\ WF_vars(CleanupSelect)
    /\ WF_vars(CleanupArchive)
    /\ SF_vars(CleanupArchiveCommitted)
    /\ WF_vars(CleanupReset)
    /\ WF_vars(CleanupStamp)

\* The process from launch on: the startup event, then requests and the
\* scheduled cleanup, and relaunches over the same database.
InitStartup ==
    /\ orders = [i \in {} |-> NoOrder]
    /\ history = <<>>
    /\ now \in 1..TicksPerDay
    /\ pc = [r \in Requests |-> "idle"]
    /\ req_order = [r \in Requests |-> 0]
    /\ internet_enabled = FALSE
    /\ last_order_reset \in {NoTime} \cup 1..now
    /\ cleanup_pc = Booting
    /\ last = Call("init", 0, NoOrder, "ok", 0)
    /\ alloc_result = 0
    /\ hub = HubInit
    /\ background = {}

NextStartup ==
    \/ Tick
    \/ StartupCheck
    \/ SchedulerStart
    \/ Restart
    \/ Serving /\ CreateOrder(1, MaxOrders)
    \/ Serving /\ CreateOrderFinish(1)
    \/ Serving /\ \E oid \in OrderIds : UpdateOrderStatus(oid)
    \/ Serving /\ CleanupSelect
    \/ CleanupArchive
    \/ CleanupReset
    \/ CleanupStamp

SpecStartup == InitStartup /\ [][NextStartup]_vars

\* The hub: status updates of an order taken before, their broadcasts, and the
\* websocket handlers of the clients.
InitHub ==
    /\ orders = (1 :> OrderRow(1, 1, PriceUnit, 0, PriceUnit))
    /\ history = <<>>
    /\ now = 1
    /\ pc = [r \in Requests |-> "idle"]
    /\ req_order = [r \in Requests |-> 0]
    /\ internet_enabled = FALSE
    /\ last_order_reset = NoTime
    /\ cleanup_pc = CleanupIdle
    /\ last = Call("init", 0, NoOrder, "ok", 0)
    /\ alloc_result = 0
    /\ hub = HubInit
    /\ background = {}

NextHub ==
    \/ \E oid \in OrderIds : HubUpdateOrderStatus(oid)
    \/ \E s \in 1..MaxBroadcasts : BroadcastResume(s)
    \/ \E c \in ClientIds : ClientConnect(c)
    \/ \E c \in ClientIds : ClientDisconnect(c)
    \/ \E c \in CustomerDisplays, oid \in OrderIds : WatchOrder(c, oid)
    \/ \E c \in CustomerDisplays, oid \in OrderIds : UnwatchOrder(c, oid)

SpecHub == InitHub /\ [][NextHub]_vars

\* The registry alone: clients connect, leave, watch and unwatch, under
\* either assignment of client ids.
InitRegistry ==
    /\ orders = (1 :> OrderRow(1, 1, PriceUnit, 0, PriceUnit))
    /\ history = <<>>
    /\ now = 1
    /\ pc = [r \in Requests |-> "idle"]
    /\ req_order = [r \in Requests |-> 0]
    /\ internet_enabled = FALSE
    /\ last_order_reset = NoTime
    /\ cleanup_pc = CleanupIdle
    /\ last = Call("init", 0, NoOrder, "ok", 0)
    /\ alloc_result = 0
    /\ hub \in {[HubInit EXCEPT !.ids = a] : a \in {OwnIds, SharedIds}}
    /\ background = {}

NextRegistry ==
    \/ \E c \in ClientIds : ClientConnect(c)
    \/ \E c \in ClientIds : ClientDisconnect(c)
    \/ \E c \in ClientIds, oid \in OrderIds : WatchOrder(c, oid)
    \/ \E c \in ClientIds, oid \in OrderIds : UnwatchOrder(c, oid)

SpecRegistry == InitRegistry /\ [][NextRegistry]_vars

\* Pricing: discounts, item lines and the operations that close an order.
NextPricing ==
    \/ CreateOrder(1, MaxOrders)
    \/ CreateOrderFinish(1)
    \/ \E oid \in OrderIds : UpdateOrderStatus(oid)
    \/ \E oid \in OrderIds : CloseOrder(oid)
    \/ \E oid \in OrderIds : ProcessPaymentCash(oid)
    \/ \E oid \in OrderIds : ApplyDiscount(oid)
    \/ \E oid \in OrderIds : RemoveDiscount(oid)
    \/ \E oid \in OrderIds : AddItem(oid)
    \/ \E oid \in OrderIds : RemoveItem(oid)

SpecPricing == Init /\ [][NextPricing]_vars

\* ------------------------------------------------------------ allocator alone
\* Databases the allocator can be called on: up to MaxAllocOrders rows, the
\* first with any number 1..99 in PREP or DONE, the others in PREP with the
\* boundary numbers; every row created today or yesterday.
BoundaryNumbers == {1, MaxOrderNumber - 1, MaxOrderNumber}

AllocRows(i) ==
    {[OrderRow(n, c, PriceUnit, 0, PriceUnit) EXCEPT !.status = s] :
        n \in (IF i = 1 THEN 1..MaxOrderNumber ELSE BoundaryNumbers),
        c \in {TicksPerDay - 1, TicksPerDay},
        s \in (IF i = 1 THEN {"prep", "done"} ELSE {"prep"})}

RECURSIVE AllocDbsOfSize(_)
AllocDbsOfSize(n) ==
    IF n = 0 THEN {[i \in {} |-> NoOrder]}
    ELSE {(n :> row) @@ f : f \in AllocDbsOfSize(n - 1), row \in AllocRows(n)}

\* Every number 1..99 held by an order in PREP created today.
FullDb == [i \in 1..MaxOrderNumber |-> OrderRow(i, TicksPerDay, PriceUnit, 0, PriceUnit)]

AllocDbs == UNION {AllocDbsOfSize(n) : n \in 0..MaxAllocOrders} \cup {FullDb}

InitAlloc ==
    /\ orders \in AllocDbs
    /\ history = <<>>
    /\ now = TicksPerDay
    /\ pc = [r \in Requests |-> "idle"]
    /\ req_order = [r \in Requests |-> 0]
    /\ internet_enabled = FALSE
    /\ last_order_reset = NoTime
    /\ cleanup_pc = CleanupIdle
    /\ last = Call("init", 0, NoOrder, "ok", 0)
    /\ alloc_result = 0
    /\ hub = HubInit
    /\ background = {}

\* A direct call of get_next_order_number on the table.
AllocCall ==
    /\ alloc_result = 0
    /\ pc[1] = "idle"
    /\ last.op = "init"
    /\ alloc_result' = get_next_order_number(orders, now)
    /\ last' = Call("get_next_order_number", 0, NoOrder, "ok", 0)
    /\ UNCHANGED <<background, hub, orders, history, now, pc, req_order, internet_enabled,
                   last_order_reset, cleanup_pc>>

\* The allocator alone, and one order creation, on each such table.
NextAlloc ==
    \/ AllocCall
    \/ (last.op = "init" /\ CreateOrder(1, MaxOrderNumber + 1))
    \/ CreateOrderFinish(1)

SpecAlloc == InitAlloc /\ [][NextAlloc]_vars

\* ------------------------------------------------------------ pricing alone
\* Orders the pricing computation can be run on: subtotal, tax, at most one
\* discount, any payment method, and a stored card fee and total that may
\* predate the current payment method.
RecalcSubtotals == {400, PriceUnit * 2, 2300}

\* No discount, or one record of a catalogue discount applied to sub.
RecalcDiscounts(sub) ==
    {<<>>} \cup {<<[discount_id |-> id,
                    amount_applied |-> calculate_discount_amount(
                                           Discount(id), TRUE, TRUE, sub)]>> :
                 id \in DiscountIds}

RecalcOrder(sub, tx, method, ds, fee) ==
    [OrderRow(1, 1, sub, tx, sub + tx) EXCEPT
        !.status = "ready",
        !.payment_method = method,
        !.discounts = ds,
        !.card_fee = fee,
        !.total = sub - SumApplied(ds) + tx + fee]

RecalcOrders ==
    UNION {{RecalcOrder(sub, tx, method, ds, fee) :
                tx \in {0, 180},
                method \in PaymentMethods \cup {"none"},
                ds \in RecalcDiscounts(sub),
                fee \in {0, MinFee}} :
           sub \in RecalcSubtotals}

InitRecalc ==
    /\ orders \in {(1 :> o) : o \in RecalcOrders}
    /\ history = <<>>
    /\ now = 1
    /\ pc = [r \in Requests |-> "idle"]
    /\ req_order = [r \in Requests |-> 0]
    /\ internet_enabled = FALSE
    /\ last_order_reset = NoTime
    /\ cleanup_pc = CleanupIdle
    /\ last = Call("init", 0, NoOrder, "ok", 0)
    /\ alloc_result = 0
    /\ hub = HubInit
    /\ background = {}

\* order.calculate_total(db).  The card-fee settings are those of the
\* previous call when this call follows another one directly.
Recalculate(oid) ==
    /\ oid \in DOMAIN orders
    /\ \E settings \in BOOLEAN :
        LET again == last.op = "calculate_total" /\ last.oid = oid
            fee_available == IF again THEN last.fee_available ELSE settings
        IN  /\ orders' = [orders EXCEPT ![oid] = calculate_total(@, fee_available)]
            /\ last' = [Call("calculate_total", oid, orders[oid], "ok", 0)
                        EXCEPT !.fee_available = fee_available, !.repeat = again]
    /\ UNCHANGED <<background, hub, history, now, pc, req_order, internet_enabled,
                   last_order_reset, cleanup_pc, alloc_result>>

NextRecalc == \E oid \in OrderIds : Recalculate(oid)

SpecRecalc == InitRecalc /\ [][NextRecalc]_vars

\* ------------------------------------------------------------ properties
ActiveIds(ords) == {i \in DOMAIN ords : ords[i].status \in ActiveStatuses}

Created == last.op = "create_order" /\ last.result = "ok"

PaymentOps == {"pay_cash", "pay_card", "close_order"}

\* The call moved its order into DONE.
MovedToDone ==
    /\ last.oid \in DOMAIN orders
    /\ orders[last.oid].status = "done"
    /\ last.before.status # "done"

\* C1: no two live orders in PREP or READY have the same order_number.
C1_ActiveNumbersUnique ==
    \A i, j \in ActiveIds(orders) :
        i # j => orders[i].order_number # orders[j].order_number

\* C2: two order creations in flight at the same time never leave their two
\* orders with the same order_number.
C2_OverlappingCreationsDistinct ==
    \A r1, r2 \in Requests :
        ( /\ r1 # r2
          /\ pc[r1] = "broadcast" /\ pc[r2] = "broadcast"
          /\ req_order[r1] # req_order[r2]
          /\ req_order[r1] \in DOMAIN orders /\ req_order[r2] \in DOMAIN orders )
        => orders[req_order[r1]].order_number # orders[req_order[r2]].order_number

\* C3: every number the allocator returns, called directly or by an order
\* creation, is an integer in 1..99, whatever rows the orders table holds.
C3_AllocatorInRange ==
    /\ last.op = "get_next_order_number" => alloc_result \in 1..MaxOrderNumber
    /\ Created => orders[last.oid].order_number \in 1..MaxOrderNumber

\* The allocator was called on a table whose highest number of the day is 99
\* and wrapped to 1.
C3_Witness ==
    /\ last.op = "get_next_order_number"
    /\ \E i \in DOMAIN orders :
          /\ orders[i].order_number = MaxOrderNumber
          /\ orders[i].created_at >= today_start(now)
    /\ alloc_result = 1

\* C4: an order creation never gives the new order a number that another
\* order in PREP or READY holds; when all of 1..99 are held it creates nothing.
C4_CreationAvoidsActiveNumbers ==
    Created =>
        \A i \in ActiveIds(orders) \ {last.oid} :
            orders[i].order_number # orders[last.oid].order_number

\* C5: a new order starts in PREP and a call changes an order's status only
\* along PREP->READY, READY->DONE, PREP->VOID, DONE->REFUNDED,
\* DONE->PARTIALLY_REFUNDED.
LegalTransitions ==
    {<<"prep", "ready">>, <<"ready", "done">>, <<"prep", "void">>,
     <<"done", "refunded">>, <<"done", "partially_refunded">>}

C5_OnlyLegalTransitions ==
    /\ Created => orders[last.oid].status = "prep"
    /\ (last.before.status # "missing" /\ last.oid \in DOMAIN orders
        /\ orders[last.oid].status # last.before.status)
       => <<last.before.status, orders[last.oid].status>> \in LegalTransitions

\* C6: a payment attempt on an order that is not READY is rejected, does not
\* reach the gateway and leaves the order as it was.
C6_PaymentRequiresReady ==
    (last.op \in PaymentOps /\ last.before.status \notin {"ready", "missing"})
    => /\ last.result # "ok"
       /\ ~last.gateway
       /\ orders[last.oid] = last.before

\* C7: a payment attempt on an order that a payment has already moved to DONE
\* is rejected and leaves the order as it was.
C7_NoSecondPayment ==
    (last.op \in PaymentOps /\ last.before.payment_method # "none")
    => /\ last.result # "ok"
       /\ orders[last.oid] = last.before

\* The order's total as the pricing engine computes it for a cash payment.
OwnCashTotal(o) == calculate_total([o EXCEPT !.payment_method = "cash"], TRUE).total

\* The totals the pricing engine can compute for a card payment of the order.
OwnCardTotals(o) ==
    {calculate_total([o EXCEPT !.payment_method = "card"], av).total : av \in BOOLEAN}

\* C8: a cash payment moves a READY order to DONE only if the cash tendered covers
\* the order's own total, and the change is tendered minus that total.
C8_CashCoversOrderTotal ==
    (last.op \in {"pay_cash", "close_order"} /\ MovedToDone
     /\ last.before.status = "ready"
     /\ orders[last.oid].payment_method = "cash")
    => /\ last.tendered >= OwnCashTotal(last.before)
       /\ last.change = last.tendered - OwnCashTotal(last.before)

\* C9: the amount a card payment of a READY order sends to the gateway is the
\* order's total in minor units.
C9_GatewayChargedOrderTotal ==
    (last.op = "pay_card" /\ last.gateway /\ last.before.status = "ready")
    => last.gateway_amount \in OwnCardTotals(last.before)

\* C10: a card payment on a READY order that reports a failure leaves the
\* order as it was, and it moves the order to DONE only when it reports
\* success.
C10_CardFailureLeavesReady ==
    /\ (last.op = "pay_card" /\ last.before.status = "ready" /\ last.result # "ok")
       => orders[last.oid] = last.before
    /\ (last.op = "pay_card" /\ last.before.status = "ready" /\ MovedToDone)
       => last.result = "ok"

\* C11: when a card payment or a refund has finished, on whatever exit path,
\* network access is disabled.
C11_NetworkDisabledAfterGatewayOps ==
    last.op \in {"pay_card", "refund"} => ~internet_enabled

\* C12: a refund request by a staff member who is not an admin, or on an
\* order that is neither DONE nor PARTIALLY_REFUNDED, is rejected, does not
\* reach the gateway and leaves the order as it was.
C12_RefundGuards ==
    (last.op = "refund" /\ last.oid \in DOMAIN orders
     /\ (~last.admin \/ last.before.status \notin {"done", "partially_refunded"}))
    => /\ last.result = "rejected"
       /\ ~last.gateway
       /\ orders[last.oid] = last.before

\* A refund of a DONE order asked by a non-admin was rejected, and a refund
\* of an order that is not refundable was asked by an admin.
C12_Witness ==
    /\ last.op = "refund" /\ last.oid \in DOMAIN orders
    /\ last.result = "rejected"
    /\ \/ (~last.admin /\ last.before.status = "done")
       \/ (last.admin /\ last.before.status = "refunded")

\* C13: after a successful gateway refund the order is REFUNDED if the
\* refunded amount is at least the order total and PARTIALLY_REFUNDED
\* otherwise, with refunded_at set; after a failed gateway refund the order
\* is as it was.
C13_RefundOutcome ==
    /\ (last.op = "refund" /\ last.gateway_result = "success")
       => /\ orders[last.oid].status =
                IF last.amount >= last.before.total THEN "refunded"
                ELSE "partially_refunded"
          /\ orders[last.oid].refunded_at = now
          /\ orders[last.oid].refunded_at # NoTime
    /\ (last.op = "refund" /\ last.gateway_result = "failure")
       => orders[last.oid] = last.before

\* The gateway refunded exactly the order total and the order is REFUNDED.
C13_Witness ==
    /\ last.op = "refund" /\ last.gateway_result = "success"
    /\ last.amount = last.before.total
    /\ orders[last.oid].status = "refunded"

\* The operations that change an order's item lines or discounts.
LineOps == {"add_item", "remove_item", "apply_discount", "remove_discount"}

\* C14: adding or removing an item line, applying or removing a discount on
\* an order that is not in PREP or READY is rejected and leaves the order's
\* discounts and totals as they were.
C14_LinesFrozenAfterReady ==
    (last.op \in LineOps /\ last.oid \in DOMAIN orders
     /\ last.before.status \notin ActiveStatuses)
    => /\ last.result # "ok"
       /\ orders[last.oid] = last.before

\* C15: the stored total of every order equals subtotal minus the sum of its
\* currently applied discount amounts plus tax plus card_fee.
C15_TotalMatchesParts ==
    \A i \in DOMAIN orders :
        orders[i].total =
            orders[i].subtotal - get_total_discount(orders[i])
            + orders[i].tax + orders[i].card_fee

\* C16: recomputing an order's totals a second time, with nothing changed
\* in between, gives the same card_fee and total as the first time.
C16_RecalculationIdempotent ==
    (last.op = "calculate_total" /\ last.repeat)
    => /\ orders[last.oid].card_fee = last.before.card_fee
       /\ orders[last.oid].total = last.before.total

\* A card order carrying a discount and a card fee was recomputed twice.
C16_Witness ==
    /\ last.op = "calculate_total" /\ last.repeat
    /\ orders[last.oid].payment_method = "card"
    /\ orders[last.oid].discounts # <<>>
    /\ orders[last.oid].card_fee > MinFee

\* C18: the computed card fee is 0 unless the payment method is CARD and the
\* card-fee settings are available; otherwise it is the larger of the base
\* (subtotal - total discount + tax) times the percentage, rounded to cents
\* with halves up (base 22.50 gives 1.13), and the minimum fee; the total is
\* the base plus that fee.
C18_CardFeeFormula ==
    last.op = "calculate_total" =>
        LET o == orders[last.oid]
            base == o.subtotal - get_total_discount(o) + o.tax
            fee == IF o.payment_method = "card" /\ last.fee_available
                   THEN (IF percentage_fee_half_up(base) > MinFee
                         THEN percentage_fee_half_up(base) ELSE MinFee)
                   ELSE 0
        IN  o.card_fee = fee /\ o.total = base + fee

\* C17: applying a discount that is unavailable, or whose group is
\* unavailable, attaches no discount record and leaves the order's total
\* discount and total as they were.
C17_UnavailableDiscountSkipped ==
    (last.op = "apply_discount" /\ ~last.discount_available
     /\ last.oid \in DOMAIN orders)
    => /\ orders[last.oid].discounts = last.before.discounts
       /\ get_total_discount(orders[last.oid]) = get_total_discount(last.before)
       /\ orders[last.oid].total = last.before.total
       /\ last.result = "rejected"

\* An unavailable discount was refused on an order that already carries one.
C17_Witness ==
    /\ last.op = "apply_discount" /\ ~last.discount_available
    /\ last.http = 400
    /\ last.oid \in DOMAIN orders
    /\ orders[last.oid].discounts # <<>>

\* C19: every order in DONE has done_at and payment_method set, and its
\* card_fee and total are those the pricing computation gives for that
\* payment method.
C19_DoneIsPaidAndPriced ==
    \A i \in DOMAIN orders :
        orders[i].status = "done" =>
            /\ orders[i].done_at # NoTime
            /\ orders[i].payment_method \in PaymentMethods
            /\ \E fee_available \in BOOLEAN :
                  LET priced == calculate_total(orders[i], fee_available)
                  IN  /\ orders[i].card_fee = priced.card_fee
                      /\ orders[i].total = priced.total

\* C20: every order that is in READY, or has passed through READY, has
\* ready_at set.
C20_ReadySetsReadyAt ==
    /\ \A i \in DOMAIN orders :
          orders[i].status = "ready" => orders[i].ready_at # NoTime
    /\ (last.oid \in DOMAIN orders /\ last.before.status = "ready")
       => orders[last.oid].ready_at # NoTime

\* C21: no order id appears in the history more than once, and none appears
\* both in the history and in the live order set.
C21_ArchivedExactlyOnce ==
    /\ \A i, j \in 1..Len(history) :
          i # j => history[i].order_id # history[j].order_id
    /\ \A i \in 1..Len(history) : history[i].order_id \notin DOMAIN orders

\* A step in which reset_order_numbers ran to its commit.
ResetCommitted == last'.op = "reset_orders" /\ last'.result = "ok"

\* The active rows hold exactly 1..N, in ascending created_at.
RenumberedFromOne(ords) ==
    LET act == {i \in DOMAIN ords : ords[i].status \in ActiveStatuses}
    IN  /\ {ords[i].order_number : i \in act} = 1..Cardinality(act)
        /\ \A i, j \in act :
              ords[i].created_at < ords[j].created_at
                  => ords[i].order_number < ords[j].order_number

\* No row that is kept differs from what it was in a field other than
\* order_number, and no row is added.
OnlyNumbersChanged(before, after) ==
    /\ DOMAIN after \subseteq DOMAIN before
    /\ \A i \in DOMAIN after :
          after[i] = [before[i] EXCEPT !.order_number = after[i].order_number]

C23_CleanupAtomic ==
    (last.op = "cleanup_reset" /\ last.result # "ok") => ~cleanup_pc.archived

\* C24: on startup a cleanup is run exactly when no cleanup is recorded or
\* the last recorded run is earlier than the most recent 3:00 AM due time;
\* when the last recorded run is at or after that due time, none is run.
C24_StartupCatchUp ==
    last.op = "startup_check" =>
        (last.result = "run" <=>
            \/ last_order_reset = NoTime
            \/ last_order_reset < last_three_am(now))

\* The broadcasts that have returned or raised.
FinishedTasks == {s \in DOMAIN hub.tasks : hub.tasks[s].at = "done"}

\* Broadcast s went out on client c's connection.
Carried(c, s) == \E i \in 1..Len(hub.log[c]) : hub.log[c][i] = s

\* Broadcast s was sent to client c, whether or not the send went through.
SentTo(c, s) == Carried(c, s) \/ c \in hub.tasks[s].failed

\* C25: an order_update broadcast for an order is sent to every connected POS
\* client, and to a connected customer display if and only if that display
\* is watching the order at the time.
C25_OrderUpdateRecipients ==
    \A s \in FinishedTasks :
        /\ \A c \in PosClients \cap hub.tasks[s].stable : SentTo(c, s)
        /\ \A c \in hub.tasks[s].watching : SentTo(c, s)
        /\ \A c \in CustomerDisplays : SentTo(c, s) => c \in hub.tasks[s].watched

\* C26: a broadcast for an order in PREP or READY is sent to every connected
\* kitchen display, and a broadcast for an order in DONE, VOID, REFUNDED or
\* PARTIALLY_REFUNDED to none.
C26_KitchenFanOut ==
    \A s \in FinishedTasks :
        (/\ hub.tasks[s].result = "ok"
         /\ hub.tasks[s].failed = {}
         /\ ~hub.tasks[s].disturbed)
        => /\ hub.tasks[s].status \in ActiveStatuses
                => \A k \in KitchenDisplays \cap hub.tasks[s].stable : SentTo(k, s)
           /\ hub.tasks[s].status \in CompletedStatuses
                => \A k \in KitchenDisplays : ~SentTo(k, s)

\* C27: when a send to one client fails during a broadcast, every other POS
\* client and watching customer display still receives it, and the order
\* operation that issued the broadcast completes successfully.
C27_SendFailureIsolated ==
    \A s \in FinishedTasks :
        (hub.tasks[s].failed # {} /\ ~hub.tasks[s].disturbed)
        => /\ hub.tasks[s].result = "ok"
           /\ \A c \in ((PosClients \cap hub.tasks[s].stable)
                            \cup hub.tasks[s].watching) \ hub.tasks[s].failed :
                  Carried(c, s)

\* C28: once a broadcast is over, a client a send to which failed in it is no
\* longer in the registry and has no watch set, unless it has left and
\* connected again since.
C28_FailedClientRemoved ==
    \A s \in FinishedTasks :
        \A c \in hub.tasks[s].failed \cap hub.tasks[s].stable :
            /\ c \notin Connected(hub)
            /\ c \notin DictKeys(hub.active_keys)

\* C29: every client's connection carries the broadcasts in the order in
\* which they were issued.
C29_PerClientIssueOrder ==
    \A c \in ClientIds :
        \A i, j \in 1..Len(hub.log[c]) :
            i < j => hub.log[c][i] < hub.log[c][j]

\* C30: a broadcast none of whose sends failed does not fail, whatever
\* connects, leaves, watches or unwatches while it is suspended, and reaches
\* every POS client and watching customer display that stayed connected.
C30_BroadcastUndisturbed ==
    \A s \in FinishedTasks :
        hub.tasks[s].failed = {}
        => /\ hub.tasks[s].result = "ok"
           /\ \A c \in (PosClients \cap hub.tasks[s].stable)
                           \cup hub.tasks[s].watching : Carried(c, s)

\* The handlers that move an order to another status, and those among them
\* that take a payment or a refund.
TransitionOps == {"update_order_status", "cancel_order", "close_order",
                  "pay_cash", "pay_card", "refund"}

MoneyOps == {"close_order", "pay_cash", "pay_card", "refund"}

\* The last call committed a change of its order's status.
StatusCommitted ==
    /\ last.op \in TransitionOps
    /\ last.oid \in DOMAIN orders
    /\ orders[last.oid].status # last.before.status

\* C31: every committed status transition is followed by an order_update
\* broadcast that carries the order's full projection, and every successful
\* payment or refund also has its receipt printed.
C31_TransitionNotified ==
    StatusCommitted =>
        /\ last.broadcast = "projection"
        /\ (last.op \in MoneyOps /\ last.result = "ok") => last.receipt

\* C32: an order creation whose line breaks a rule (item unknown or
\* inactive, quantity below 1, modifier selections outside the list's
\* [min, max]) is rejected and writes nothing: no order is added and the
\* live set is as it was.
C32_InvalidCreateWritesNothing ==
    (last.op = "create_order" /\ last.invalid) =>
        /\ last.result = "rejected"
        /\ last.oid \notin DOMAIN orders

NumbersOfToday == {orders[i].order_number :
                      i \in {j \in DOMAIN orders : orders[j].created_at >= today_start(now)}}

\* C35: the allocator returns 1 when no order was created since the start
\* of the current day; otherwise the highest order_number among the orders
\* created since then plus one, or 1 when that exceeds 99.
C35_AllocatorValue ==
    last.op = "get_next_order_number" =>
        IF NumbersOfToday = {} THEN alloc_result = 1
        ELSE \E h \in NumbersOfToday :
                /\ \A n \in NumbersOfToday : n <= h
                /\ alloc_result = IF h + 1 > MaxOrderNumber THEN 1 ELSE h + 1

\* The allocator was called on a table whose highest number belongs to an
\* order of the day before, and counted from the orders of today.
C35_Witness ==
    /\ last.op = "get_next_order_number"
    /\ NumbersOfToday # {}
    /\ \E i \in DOMAIN orders :
          /\ orders[i].created_at < today_start(now)
          /\ \A n \in NumbersOfToday : n < orders[i].order_number
          /\ alloc_result <= orders[i].order_number

\* Order i is live, completed, and old enough to pass the 24-hour cutoff
\* before the clock's bound.
OldCompleted(i) ==
    /\ i \in DOMAIN orders
    /\ orders[i].status \in CompletedStatuses
    /\ orders[i].created_at + TicksPerDay < MaxTime

\* C36: with the cleanup job firing and the storage succeeding, every order
\* that has reached DONE, VOID, REFUNDED or PARTIALLY_REFUNDED is eventually
\* archived and gone from the live set, and no step removes an order that is
\* in PREP or READY.
C36_CompletedArchivedActiveKept ==
    /\ \A i \in OrderIds :
          OldCompleted(i) ~> (i \notin DOMAIN orders /\ history # <<>>)
    /\ [][\A i \in DOMAIN orders :
             orders[i].status \in {"prep", "ready"} => i \in DOMAIN orders']_vars

\* C37: last_order_reset is advanced only by a cleanup run whose archiving
\* and renumbering both committed; a run in which a step failed and rolled
\* back leaves it as it was.
C37_StampOnlyAfterSuccess ==
    [][(cleanup_pc.at = "stamp" /\ cleanup_pc.failed) =>
           last_order_reset' = last_order_reset]_vars

\* The watch set of connected client c, or "none" when its id has none.
WatchSet(h, c) ==
    IF h.ids[c] \in DictKeys(h.active_keys) THEN h.active_sets[h.ids[c]]
    ELSE {"none"}

\* C38: the client ids that have a watch set are the client ids in the
\* connection registry, over all roles, and a connect or disconnect of one
\* client leaves the watch set of every other connected client as it was,
\* also when two clients of different roles use the same client id.
C38_WatchSetsFollowRegistry ==
    /\ [](DictKeys(hub.active_keys) = {hub.ids[c] : c \in Connected(hub)})
    /\ [][last'.op \in {"connect", "disconnect"} =>
             \A c \in Connected(hub) \cap Connected(hub') :
                 WatchSet(hub', c) = WatchSet(hub, c)]_vars

\* C39: for one order at most one gateway charge ever succeeds: the gateway
\* never accepts a card payment for an order that already carries the
\* payment id of an accepted charge.
C39_SingleCharge ==
    ~ /\ last.op = "pay_card"
      /\ last.gateway
      /\ last.gateway_result = "success"
      /\ last.before.square_payment_id # NoPaymentId

\* C40: over the successful refunds of an order the sum of the refunded
\* amounts never exceeds the order's total, and the order is REFUNDED exactly
\* when that sum has reached the total.
C40_RefundsWithinTotal ==
    (last.op = "refund" /\ last.result = "ok") =>
        LET o == orders[last.oid]
        IN  /\ o.refunded <= o.total
            /\ (o.status = "refunded") <=> (o.refunded >= o.total)

====
